---- MODULE Spec2Model ----
(***************************************************************************)
(* The interaction/performance tracker of the portfolio page               *)
(* (src/analytics.js, class PortfolioAnalytics) as a state machine.        *)
(* One action per browser callback the tracker registers; Init is the      *)
(* state right after `new PortfolioAnalytics()` has run inside the         *)
(* DOMContentLoaded listener.  The page behaviour controller               *)
(* (src/script.js) follows in the second half, with its own initial state  *)
(* PageInit and specification PageSpec.                                    *)
(*                                                                         *)
(* JavaScript numbers are records [k, v]: k = "num" carries the integer v, *)
(* k = "nan" | "inf" | "ninf" are the IEEE fault values, k = "undef" is    *)
(* the value `undefined` of an omitted argument.  Divisions are computed   *)
(* exactly (as rationals) before Math.round.                               *)
(*                                                                         *)
(* Time is in milliseconds since the page's time origin (performance.now); *)
(* Date.now() is that plus TimeOrigin.  A pending timer fires at its       *)
(* deadline: time does not pass a deadline without the callback running.   *)
(*                                                                         *)
(* gtag is the page's global: absent, a function that returns, or one that *)
(* throws; another script may replace it between two callbacks.            *)
(*                                                                         *)
(* A behaviour explores the callbacks of one group of listeners, `scope`,  *)
(* together with the clock and gtag: the click listeners ("clicks"), the   *)
(* section observer with the navigation click listener ("sections"), the   *)
(* scroll listener and its timer ("scroll"), the load listener and the     *)
(* background reporters ("load").  Groups share no variable but the log,   *)
(* which the first two append to (see each action's UNCHANGED).            *)
(***************************************************************************)
EXTENDS Integers, Sequences, FiniteSets, TLC

\* ------------------------------------------------------------------ bounds
MaxLog      == 2        \* longest interaction log explored
MaxTime     == 2000     \* time explored after construction (ms)
StartOffset == 120      \* instant of construction (ms since time origin)
TimeOrigin  == 100000   \* Date.now() at the time origin
TicksPerMs  == 2        \* resolution of the high-resolution timestamps

NavTickMs   == 5        \* clock step while the navbar is explored (ms)
MaxNavTime  == 30       \* time explored for the navbar (ms)
BlogTickMs  == 100      \* clock step while the blog filter is explored
MaxBlogTime == 500      \* time explored for the blog filter
FormTickMs  == 2000     \* clock step while the contact form is explored
MaxFormTime == 14000    \* time explored for the contact form
MaxFieldsTime == 4000   \* time explored for the form's validation
MaxPending  == 2        \* submissions pending at once

\* ------------------------------------------------------- program constants
ScrollQuietMs   == 1000   \* setTimeout(..., 1000) of the scroll listener
RatioThreshold  == 50     \* intersectionRatio > 0.5, in percent
LongTaskMs      == 50     \* entry.duration > 50
MemoryMinMB     == 10     \* usedJSHeapSize > 10
BytesPerMB      == 1048576
DebounceWait     == 10    \* debounce(..., 10)
NavbarScrolledAt == 50    \* window.scrollY > 50
LookAhead        == 200   \* sectionTop - 200
ShowDelay        == 100   \* setTimeout(..., 100) of a displayed post
HideDelay        == 300   \* setTimeout(..., 300) of a filtered-out post
MinNameLength    == 2     \* value.length < 2
MinMessageLength == 10    \* value.length < 10
SubmissionDelay  == 2000  \* setTimeout(..., 2000) of simulateFormSubmission
AutoHideDelay    == 10000 \* setTimeout(..., 10000) of autoHideMessage

\* ------------------------------------------------------------- JS numbers
Num(n)    == [k |-> "num",   v |-> n]
NaN       == [k |-> "nan",   v |-> 0]
PosInf    == [k |-> "inf",   v |-> 0]
NegInf    == [k |-> "ninf",  v |-> 0]
Undefined == [k |-> "undef", v |-> 0]

IsNum(x)   == x.k = "num"
IsFault(x) == x.k \in {"nan", "inf", "ninf"}

\* floor(n / d) for d > 0 and any integer n
FloorDiv(n, d) == IF n >= 0 THEN n \div d ELSE -((-n + d - 1) \div d)

\* Math.round of the rational n / d (d > 0): the nearest integer, a half
\* rounding towards +Infinity.
MathRound(n, d) == FloorDiv(2 * n + d, 2 * d)

\* Math.max(a, b) on JS numbers: NaN if either is NaN.
MathMax(a, b) ==
    IF a.k = "nan" \/ b.k = "nan" THEN NaN
    ELSE IF a.k = "inf" \/ b.k = "inf" THEN PosInf
    ELSE IF a.k = "ninf" THEN b
    ELSE IF b.k = "ninf" THEN a
    ELSE IF a.v >= b.v THEN a ELSE b

\* value > 0 on a JS number (false for NaN)
JsPositive(x) == x.k = "inf" \/ (x.k = "num" /\ x.v > 0)

\* ------------------------------------------------------------- the state
VARIABLES
    scope,               \* the group of listeners this behaviour explores
    gtag,                \* the global gtag: "undefined", "ok" or "throws"
    now,                 \* performance.now(), ms
    startTime,           \* this.startTime
    interactions,        \* this.interactions
    performanceMetrics,  \* this.performanceMetrics ({} = empty function)
    sectionViews,        \* the Map of trackSectionViews: id -> Date.now()
    maxScroll,           \* maxScroll of trackScrollBehavior
    scrollTimeout,       \* scrollTimeout of trackScrollBehavior: the timer
                         \*   last set, named by its deadline
    timers,              \* the browser's pending timers (their deadlines)
    loaded,              \* the window's load event has been dispatched
    dataTheme,           \* body's data-theme attribute
    trackerFirst,        \* the tracker's click listener on #themeToggle is
                         \*   registered before script.js's
    viewsSent,           \* section id -> number of section_view gtag calls
    metricsAssigned,     \* number of assignments to this.performanceMetrics
    last                 \* the most recent step: its name, its input, its
                         \*   trackEvent invocations, those that returned,
                         \*   its gtag invocations, and whether it ended by
                         \*   an uncaught exception

\* The page behaviour controller (src/script.js).
VARIABLES
    storage,             \* localStorage's 'theme' item ("absent" = null)
    prefersDark,         \* (prefers-color-scheme: dark) matches
    matchMedia,          \* window.matchMedia exists
    userSaved,           \* the user has chosen a theme (a saved preference at
                         \*   startup, or a click on the toggle since)
    windowScrollY,       \* window.scrollY
    navbarScrolled,      \* .navbar has the class 'scrolled'
    activeLink,          \* the section whose .nav-link has the class 'active'
    timeout,             \* `timeout` of debounce: the timer last set
    activeFilter,        \* the .blog-filter-btn elements with the class 'active'
    lastFilter,          \* the filter button clicked most recently
    display,             \* blog post -> style.display
    opacity,             \* blog post -> style.opacity
    fieldClasses,        \* form field -> its validation classes
    submitDisabled,      \* submitBtn.disabled
    btnTextHidden,       \* .btn-text has the class 'd-none'
    btnLoadingHidden,    \* .btn-loading has the class 'd-none'
    successHidden,       \* successMessage has the class 'd-none'
    errorHidden,         \* errorMessage has the class 'd-none'
    shownAt,             \* message -> instant it became visible (if visible)
    pageTimers,          \* pending timers of script.js: [at, fn, arg]
    ran                  \* the functions the most recent callback of
                         \*   script.js ran, in order

themeVars == <<storage, prefersDark, matchMedia, userSaved>>
navVars   == <<windowScrollY, navbarScrolled, activeLink, timeout>>
blogVars  == <<activeFilter, lastFilter, display, opacity>>
formVars  == <<fieldClasses, submitDisabled, btnTextHidden, btnLoadingHidden,
               successHidden, errorHidden, shownAt>>
\* what the tracker's callbacks other than the theme click leave alone
pageRest  == <<prefersDark, matchMedia, userSaved, navVars, blogVars, formVars,
               pageTimers, ran>>
pageVars  == <<storage, pageRest>>

\* what script.js's callbacks leave alone
trackerVars == <<gtag, startTime, interactions, performanceMetrics,
                 sectionViews, maxScroll, scrollTimeout, timers, loaded,
                 trackerFirst, viewsSent, metricsAssigned>>

vars == <<scope, gtag, now, startTime, interactions, performanceMetrics,
          sectionViews, maxScroll, scrollTimeout, timers, loaded, dataTheme,
          trackerFirst, viewsSent, metricsAssigned, last, pageVars>>

DateNow == TimeOrigin + now

Sections == {"home", "about"}
NoTimer  == -1
EmptyMetrics == [m \in {} |-> Undefined]

\* the page's static content
Posts      == {"post1", "post2"}
Category   == [p \in Posts |-> IF p = "post1" THEN "tech" ELSE "life"]
Filters    == {"all", "tech", "life"}
Messages   == {"success", "error"}
FieldNames == {"firstName", "lastName", "email", "message", "phone"}
NotShown   == -1

\* script.js after its DOMContentLoaded listener, outside the behaviours
\* that explore it: the theme saved, nothing scrolled, clicked or submitted.
ThemeIdle ==
    /\ storage = dataTheme
    /\ prefersDark = FALSE
    /\ matchMedia = TRUE
    /\ userSaved = TRUE

ControlsIdle ==
    /\ windowScrollY = 0
    /\ navbarScrolled = FALSE
    /\ activeLink = "none"
    /\ timeout = NoTimer
    /\ activeFilter = {"all"}
    /\ lastFilter = "none"
    /\ display = [p \in Posts |-> "block"]
    /\ opacity = [p \in Posts |-> 0]
    /\ fieldClasses = [f \in FieldNames |-> {}]
    /\ submitDisabled = FALSE
    /\ btnTextHidden = FALSE
    /\ btnLoadingHidden = TRUE
    /\ successHidden = TRUE
    /\ errorHidden = TRUE
    /\ shownAt = [m \in Messages |-> NotShown]
    /\ pageTimers = {}
    /\ ran = <<>>

PageIdle == ThemeIdle /\ ControlsIdle

\* --------------------------------------------------------------- trackEvent
Event(action, category, label, value) ==
    [action |-> action, category |-> category, label |-> label, value |-> value]

\* The run of one callback: the trackEvent invocations, those that returned,
\* what reached gtag, and whether an exception is propagating.
Run0 == [calls |-> <<>>, returned |-> <<>>, sent |-> <<>>, threw |-> FALSE]

\* gtag('event', action, {...}): the call reaches gtag, which returns or throws.
CallGtag(h, ev) ==
    IF gtag = "throws"
    THEN [h EXCEPT !.sent = Append(@, ev), !.threw = TRUE]
    ELSE [h EXCEPT !.sent = Append(@, ev), !.returned = Append(@, ev)]

\* trackEvent without its `typeof gtag !== 'undefined'` test: calling the
\* absent gtag is a ReferenceError.
MutTrackEventNoGuard(h, ev) ==
    IF h.threw THEN h
    ELSE LET h1 == [h EXCEPT !.calls = Append(@, ev)]
         IN  IF gtag = "undefined" THEN [h1 EXCEPT !.threw = TRUE]
             ELSE CallGtag(h1, ev)

\* this.trackEvent(action, category, label, value); not reached once an
\* exception is propagating.
trackEvent(h, ev) ==
    IF h.threw THEN h
    ELSE LET h1 == [h EXCEPT !.calls = Append(@, ev)]
         IN  IF gtag # "undefined" THEN CallGtag(h1, ev)
             ELSE [h1 EXCEPT !.returned = Append(@, ev)]

\* The window 'error' listener of setupErrorTracking, which the browser runs
\* when a callback ends by an uncaught exception (an exception thrown by this
\* listener itself is reported without a further error event).
errorListener(h, message) ==
    LET e == trackEvent([h EXCEPT !.threw = FALSE],
                        Event("javascript_error", "Error", message, Num(1)))
    IN  [e EXCEPT !.threw = h.threw]

\* A browser-dispatched callback that ended: an uncaught exception is reported.
Dispatch(h) == IF h.threw THEN errorListener(h, "Uncaught Error") ELSE h

\* The actions that report a user interaction, which the log also holds.
InteractionActions == {"navigation_click", "social_click", "project_click",
                       "cta_click", "theme_change", "section_view"}

CountOf(seq, actions) ==
    Cardinality({ i \in 1..Len(seq) : seq[i].action \in actions })

\* The callback `op` has run on `input`.
Finish(op, input, h) ==
    last' = [op |-> op, input |-> input, calls |-> h.calls,
             returned |-> h.returned, sent |-> h.sent, threw |-> h.threw]

\* A step of the environment: no callback of the tracker runs.
Env(op) ==
    last' = [op |-> op, input |-> <<>>, calls |-> <<>>, returned |-> <<>>,
             sent |-> <<>>, threw |-> FALSE]

\* A tracker that captured the performance metrics in its constructor.
MutInitCapturesAtConstruction ==
    /\ scope \in {"clicks", "sections", "scroll", "load"}
    /\ gtag \in {"undefined", "ok", "throws"}
    /\ now = StartOffset
    /\ startTime = StartOffset
    /\ interactions = <<>>
    /\ performanceMetrics = [m \in {"domContentLoaded", "loadComplete",
                                    "firstPaint", "firstContentfulPaint"} |-> Num(0)]
    /\ sectionViews = [s \in {} |-> 0]
    /\ maxScroll = Num(0)
    /\ scrollTimeout = NoTimer
    /\ timers = {}
    /\ loaded = FALSE
    /\ dataTheme \in IF scope = "clicks" THEN {"light", "dark"} ELSE {"light"}
    /\ trackerFirst \in IF scope = "clicks" THEN BOOLEAN ELSE {TRUE}
    /\ viewsSent = [s \in Sections |-> 0]
    /\ metricsAssigned = 1
    /\ last = [op |-> "init", input |-> <<>>, calls |-> <<>>, returned |-> <<>>,
               sent |-> <<>>, threw |-> FALSE]
    /\ PageIdle

\* ------------------------------------------------------------------- Init
Init ==
    /\ scope \in {"clicks", "sections", "scroll", "load"}
    /\ gtag \in {"undefined", "ok", "throws"}
    /\ now = StartOffset
    /\ startTime = StartOffset
    /\ interactions = <<>>
    /\ performanceMetrics = EmptyMetrics
    /\ sectionViews = [s \in {} |-> 0]
    /\ maxScroll = Num(0)
    /\ scrollTimeout = NoTimer
    /\ timers = {}
    /\ loaded = FALSE
    /\ dataTheme \in IF scope = "clicks" THEN {"light", "dark"} ELSE {"light"}
    /\ trackerFirst \in IF scope = "clicks" THEN BOOLEAN ELSE {TRUE}
    /\ viewsSent = [s \in Sections |-> 0]
    /\ metricsAssigned = 0
    /\ last = [op |-> "init", input |-> <<>>, calls |-> <<>>, returned |-> <<>>,
               sent |-> <<>>, threw |-> FALSE]
    /\ PageIdle

\* ------------------------------------------------------- click listeners
\* the push placed before the trackEvent call: it happens whatever gtag does
MutPushBeforeTrack(h, entry) == Append(interactions, entry)

\* an unshift in place of the push: the entry is put in front
MutPushFront(h, entry) ==
    IF h.threw THEN interactions ELSE <<entry>> \o interactions

\* interactions.push(entry), reached only if no exception is propagating.
Push(h, entry) ==
    IF h.threw THEN interactions ELSE Append(interactions, entry)

\* what a click listener leaves alone
ClickFrame ==
    UNCHANGED <<scope, gtag, now, startTime, performanceMetrics, sectionViews,
                maxScroll, scrollTimeout, timers, loaded, trackerFirst,
                viewsSent, metricsAssigned, pageRest>>

\* .nav-link click
NavClick ==
    /\ scope \in {"clicks", "sections"}
    /\ \E section \in Sections :
      LET h == trackEvent(Run0, Event("navigation_click", "User Interaction",
                                      section, Undefined))
      IN  /\ Len(interactions) < MaxLog
          /\ interactions' = Push(h, [type |-> "navigation", section |-> section,
                                      timestamp |-> DateNow])
          /\ Finish("NavClick", section, Dispatch(h))
          /\ UNCHANGED <<dataTheme, storage>>
          /\ ClickFrame

\* A link's href, as the set of the keywords it contains.
SocialUrls == {{"linkedin"}, {"github", "codechef"}, {}}

getSocialPlatform(url) ==
    IF "linkedin" \in url THEN "LinkedIn"
    ELSE IF "github" \in url THEN "GitHub"
    ELSE IF "codechef" \in url THEN "CodeChef"
    ELSE "Unknown"

\* .social-link click
SocialClick ==
    /\ scope = "clicks"
    /\ \E url \in SocialUrls :
      LET platform == getSocialPlatform(url)
          h == trackEvent(Run0, Event("social_click", "User Interaction",
                                      platform, Undefined))
      IN  /\ Len(interactions) < MaxLog
          /\ interactions' = Push(h, [type |-> "social", platform |-> platform,
                                      timestamp |-> DateNow])
          /\ Finish("SocialClick", url, Dispatch(h))
          /\ UNCHANGED <<dataTheme, storage>>
          /\ ClickFrame

\* `${projectTitle} - ${linkType}` for the one project title explored
ProjectTitle == "Portfolio"
ProjectLabel(linkType) ==
    IF linkType = "live_demo" THEN "Portfolio - live_demo"
    ELSE "Portfolio - repository"

\* .project-links a click
ProjectClick ==
    /\ scope = "clicks"
    /\ \E hasDemo \in BOOLEAN :
      LET linkType == IF hasDemo THEN "live_demo" ELSE "repository"
          h == trackEvent(Run0, Event("project_click", "User Interaction",
                                      ProjectLabel(linkType), Undefined))
      IN  /\ Len(interactions) < MaxLog
          /\ interactions' = Push(h, [type |-> "project", project |-> ProjectTitle,
                                      linkType |-> linkType,
                                      timestamp |-> DateNow])
          /\ Finish("ProjectClick", hasDemo, Dispatch(h))
          /\ UNCHANGED <<dataTheme, storage>>
          /\ ClickFrame

\* .hero-buttons a, .contact-links a click
CtaClick ==
    /\ scope = "clicks"
    /\ \E buttonText \in {"Contact Me"} :
      LET h == trackEvent(Run0, Event("cta_click", "User Interaction",
                                      buttonText, Undefined))
      IN  /\ Len(interactions) < MaxLog
          /\ interactions' = Push(h, [type |-> "cta", button |-> buttonText,
                                      timestamp |-> DateNow])
          /\ Finish("CtaClick", buttonText, Dispatch(h))
          /\ UNCHANGED <<dataTheme, storage>>
          /\ ClickFrame

Other(theme) == IF theme = "light" THEN "dark" ELSE "light"

\* #themeToggle click: the tracker's listener and script.js's listener
\* (initThemeSwitcher), in their order of registration.  The tracker's reads
\* body's data-theme as it is when it runs; script.js's sets it.
ThemeClick ==
    LET seen     == IF trackerFirst THEN dataTheme ELSE Other(dataTheme)
        newTheme == IF seen = "light" THEN "dark" ELSE "light"
        h == trackEvent(Run0, Event("theme_change", "User Interaction",
                                    newTheme, Undefined))
    IN  /\ scope = "clicks"
        /\ Len(interactions) < MaxLog
        /\ interactions' = Push(h, [type |-> "theme", theme |-> newTheme,
                                    timestamp |-> DateNow])
        /\ dataTheme' = Other(dataTheme)
        /\ storage' = Other(dataTheme)
        /\ Finish("ThemeClick", dataTheme, Dispatch(h))
        /\ ClickFrame

\* ------------------------------------------------------- section views
Observations ==
    { [isIntersecting |-> TRUE,  ratio |-> 75],
      [isIntersecting |-> TRUE,  ratio |-> 50],
      [isIntersecting |-> FALSE, ratio |-> 0] }

Entries == { [id |-> s, isIntersecting |-> o.isIntersecting, ratio |-> o.ratio] :
             s \in Sections, o \in Observations }

\* the batches of entries explored: one entry, or two entries above the
\* threshold
EntryLists == { <<e>> : e \in Entries } \cup
              { <<e1, e2>> : e1 \in { e \in Entries : e.ratio > RatioThreshold },
                             e2 \in { e \in Entries : e.ratio > RatioThreshold } }

\* The tracker state an observer callback works on.
Tracker(h) == [views |-> sectionViews, log |-> interactions,
               sent |-> viewsSent, h |-> h]

\* entry.isIntersecting && entry.intersectionRatio > 0.5
Qualifies(entry) == entry.isIntersecting /\ entry.ratio > RatioThreshold

\* the observer callback without its `!sectionViews.has(sectionId)` test
MutObserveEntryNoHas(t, entry) ==
    IF t.h.threw THEN t
    ELSE IF Qualifies(entry)
    THEN LET views1 == [s \in DOMAIN t.views \cup {entry.id} |->
                          IF s = entry.id THEN DateNow ELSE t.views[s]]
             h1 == trackEvent(t.h, Event("section_view", "User Behavior",
                                         entry.id, Undefined))
             sent1 == IF Len(h1.sent) > Len(t.h.sent)
                      THEN [t.sent EXCEPT ![entry.id] = @ + 1] ELSE t.sent
         IN  [views |-> views1,
              log   |-> IF h1.threw THEN t.log
                        ELSE Append(t.log, [type |-> "section_view",
                                            section |-> entry.id,
                                            timestamp |-> DateNow]),
              sent  |-> sent1,
              h     |-> h1]
    ELSE t

\* One entry of the observer callback's forEach.
observeEntry(t, entry) ==
    IF t.h.threw THEN t
    ELSE IF Qualifies(entry) /\ entry.id \notin DOMAIN t.views
    THEN LET views1 == [s \in DOMAIN t.views \cup {entry.id} |->
                          IF s = entry.id THEN DateNow ELSE t.views[s]]
             h1 == trackEvent(t.h, Event("section_view", "User Behavior",
                                         entry.id, Undefined))
             sent1 == IF Len(h1.sent) > Len(t.h.sent)
                      THEN [t.sent EXCEPT ![entry.id] = @ + 1] ELSE t.sent
         IN  [views |-> views1,
              log   |-> IF h1.threw THEN t.log
                        ELSE Append(t.log, [type |-> "section_view",
                                            section |-> entry.id,
                                            timestamp |-> DateNow]),
              sent  |-> sent1,
              h     |-> h1]
    ELSE t

RECURSIVE observeEntries(_, _)
observeEntries(t, entries) ==
    IF entries = <<>> THEN t
    ELSE observeEntries(observeEntry(t, Head(entries)), Tail(entries))

\* The IntersectionObserver callback of trackSectionViews.
SectionObserved ==
    /\ scope = "sections"
    /\ \E entries \in EntryLists :
      LET t == observeEntries(Tracker(Run0), entries)
      IN  /\ Len(t.log) <= MaxLog
          /\ sectionViews' = t.views
          /\ interactions' = t.log
          /\ viewsSent' = t.sent
          /\ Finish("SectionObserved", entries, Dispatch(t.h))
          /\ UNCHANGED <<scope, gtag, now, startTime, performanceMetrics,
                         maxScroll, scrollTimeout, timers, loaded, dataTheme,
                         trackerFirst, metricsAssigned, pageVars>>

\* ------------------------------------------------------------ scrolling
ScrollYs      == {0, 300, 600, 900}
ScrollHeights == {400, 600, 1200}
InnerHeights  == {600}

\* Math.round((scrollY / (scrollHeight - innerHeight)) * 100)
scrollPercent(scrollY, scrollHeight, innerHeight) ==
    LET den == scrollHeight - innerHeight
    IN  IF den = 0
        THEN IF scrollY = 0 THEN NaN
             ELSE IF scrollY > 0 THEN PosInf ELSE NegInf
        ELSE IF den > 0 THEN Num(MathRound(100 * scrollY, den))
        ELSE Num(MathRound(-100 * scrollY, -den))

\* maxScroll = Math.max(maxScroll, scrollPercent)
newMaxScroll(old, percent) == MathMax(old, percent)

\* the scroll listener without its clearTimeout
MutResetTimerNoClear(pending, id, deadline) == pending \cup {deadline}

\* clearTimeout(scrollTimeout); scrollTimeout = setTimeout(..., 1000)
resetTimer(pending, id, deadline) == (pending \ {id}) \cup {deadline}

\* the window 'scroll' listener of trackScrollBehavior
Scroll ==
    /\ scope = "scroll"
    /\ \E scrollY \in ScrollYs, scrollHeight \in ScrollHeights,
       innerHeight \in InnerHeights :
      /\ now + ScrollQuietMs <= StartOffset + MaxTime
      /\ maxScroll' = newMaxScroll(maxScroll,
                          scrollPercent(scrollY, scrollHeight, innerHeight))
      /\ timers' = resetTimer(timers, scrollTimeout, now + ScrollQuietMs)
      /\ scrollTimeout' = now + ScrollQuietMs
      /\ Finish("Scroll", [scrollY |-> scrollY, scrollHeight |-> scrollHeight,
                           innerHeight |-> innerHeight], Run0)
      /\ UNCHANGED <<scope, gtag, now, startTime, interactions,
                     performanceMetrics, sectionViews, loaded, dataTheme,
                     trackerFirst, viewsSent, metricsAssigned, pageVars>>

\* the setTimeout callback of the scroll listener
ScrollTimer ==
    /\ scope = "scroll"
    /\ \E deadline \in timers :
      /\ now >= deadline
      /\ timers' = timers \ {deadline}
      /\ Finish("ScrollTimer", deadline,
                Dispatch(trackEvent(Run0, Event("scroll_depth", "User Behavior",
                                       "Max Scroll Percentage", maxScroll))))
      /\ UNCHANGED <<scope, gtag, now, startTime, interactions,
                     performanceMetrics, sectionViews, maxScroll, scrollTimeout,
                     loaded, dataTheme, trackerFirst, viewsSent, metricsAssigned, pageVars>>

\* ------------------------------------------------------------ page load
Ms(n) == n * TicksPerMs

\* [start, end] of the navigation entry's event timestamps, in ticks
DclPairs  == { <<Ms(1000), Ms(1200)>>, <<Ms(1000), Ms(1000)>>,
               <<Ms(1000), Ms(1000) + 1>> }
LoadPairs == { <<Ms(1500), 0>>, <<Ms(1500), Ms(1502)>> }

\* performance.getEntriesByType('navigation')
NavTimings == { <<[domContentLoadedEventStart |-> d[1],
                   domContentLoadedEventEnd   |-> d[2],
                   loadEventStart |-> l[1],
                   loadEventEnd   |-> l[2]]>> : d \in DclPairs, l \in LoadPairs }
              \cup { <<>> }

\* performance.getEntriesByType('paint')
FP  == [name |-> "first-paint", startTime |-> Ms(300) + 1]
FCP == [name |-> "first-contentful-paint", startTime |-> Ms(350)]
PaintLists == { <<>>, <<FCP>>, <<FP, FCP>> }

\* paintEntries.find(entry => entry.name === name), then
\* found ? Math.round(found.startTime) : 0
paintTime(paintEntries, name) ==
    LET hits == { i \in 1..Len(paintEntries) : paintEntries[i].name = name }
    IN  IF hits = {} THEN Num(0)
        ELSE LET first == CHOOSE i \in hits : \A j \in hits : i <= j
             IN  Num(MathRound(paintEntries[first].startTime, TicksPerMs))

getFirstPaint(paintEntries) == paintTime(paintEntries, "first-paint")
getFirstContentfulPaint(paintEntries) ==
    paintTime(paintEntries, "first-contentful-paint")

\* the keys of this.performanceMetrics, in insertion order
MetricOrder == <<"domContentLoaded", "loadComplete", "firstPaint",
                 "firstContentfulPaint">>
MetricNames == { MetricOrder[i] : i \in 1..Len(MetricOrder) }

captureMetrics(navTiming, paintEntries) ==
    [m \in MetricNames |->
       CASE m = "domContentLoaded" ->
              Num(MathRound(navTiming.domContentLoadedEventEnd
                            - navTiming.domContentLoadedEventStart, TicksPerMs))
         [] m = "loadComplete" ->
              Num(MathRound(navTiming.loadEventEnd - navTiming.loadEventStart,
                            TicksPerMs))
         [] m = "firstPaint" -> getFirstPaint(paintEntries)
         [] OTHER -> getFirstContentfulPaint(paintEntries)]

\* the test written `value >= 0`
MutMetricReportedNonNegative(value) ==
    value.k = "inf" \/ (value.k = "num" /\ value.v >= 0)

\* if (value > 0) this.trackEvent(metric, 'Performance', metric, value)
metricReported(value) == JsPositive(value)

RECURSIVE reportMetrics(_, _, _)
reportMetrics(h, metrics, i) ==
    IF i > Len(MetricOrder) THEN h
    ELSE LET m == MetricOrder[i]
         IN  reportMetrics(IF metricReported(metrics[m])
                           THEN trackEvent(h, Event(m, "Performance", m, metrics[m]))
                           ELSE h,
                           metrics, i + 1)

\* the window 'load' listener of trackPageLoad; the browser dispatches the
\* load event once per document
PageLoad ==
    /\ scope = "load"
    /\ \E hasGetEntries \in BOOLEAN, nav \in NavTimings, paintEntries \in PaintLists :
      LET h0 == trackEvent(Run0, Event("page_load_time", "Performance", "Load Time",
                                       Num(MathRound(now - startTime, 1))))
          capture == ~h0.threw /\ hasGetEntries /\ nav # <<>>
          metrics == captureMetrics(nav[1], paintEntries)
          h == IF capture THEN reportMetrics(h0, metrics, 1) ELSE h0
      IN  /\ ~loaded
          /\ loaded' = TRUE
          /\ performanceMetrics' = IF capture THEN metrics ELSE performanceMetrics
          /\ metricsAssigned' = IF capture THEN metricsAssigned + 1
                                ELSE metricsAssigned
          /\ Finish("PageLoad", [hasGetEntries |-> hasGetEntries, nav |-> nav,
                                 paintEntries |-> paintEntries], Dispatch(h))
          /\ UNCHANGED <<scope, gtag, now, startTime, interactions, sectionViews,
                         maxScroll, scrollTimeout, timers, dataTheme,
                         trackerFirst, viewsSent, pageVars>>

\* --------------------------------------------------------- other callbacks
OnlyEvents ==
    UNCHANGED <<scope, gtag, now, startTime, interactions, performanceMetrics,
                sectionViews, maxScroll, scrollTimeout, timers, loaded,
                dataTheme, trackerFirst, viewsSent, metricsAssigned, pageVars>>

ConversionKinds == {"contact_attempt", "project_engagement", "resume_download",
                    "newsletter"}

\* trackConversion(type, value): a public method, its exception goes to
\* its caller.
trackConversion(h, type, value) ==
    LET h1 == trackEvent(h, Event("conversion", "Conversion", type, value))
    IN  IF type = "contact_attempt"
        THEN trackEvent(h1, Event("contact_attempt", "Lead Generation",
                                  "Contact Form", Num(1)))
        ELSE IF type = "project_engagement"
        THEN trackEvent(h1, Event("project_engagement", "Portfolio Engagement",
                                  "Project View", Num(1)))
        ELSE IF type = "resume_download"
        THEN trackEvent(h1, Event("resume_download", "Lead Generation",
                                  "Resume Download", Num(1)))
        ELSE h1

TrackConversion ==
    /\ scope = "load"
    /\ \E type \in ConversionKinds, value \in {Num(1), Num(5)} :
      /\ Finish("TrackConversion", [type |-> type, value |-> value],
                trackConversion(Run0, type, value))
      /\ OnlyEvents

\* the setInterval callback of trackPerformanceMetrics (performance.memory)
MemorySample ==
    /\ scope = "load"
    /\ \E usedBytes \in {5 * BytesPerMB, 10 * BytesPerMB + BytesPerMB \div 2,
                      12 * BytesPerMB} :
      LET usedMB == MathRound(usedBytes, BytesPerMB)
      IN  /\ Finish("MemorySample", usedBytes,
                    Dispatch(IF usedMB > MemoryMinMB
                             THEN trackEvent(Run0, Event("memory_usage", "Performance",
                                        "Used JS Heap Size (MB)", Num(usedMB)))
                             ELSE Run0))
          /\ OnlyEvents

\* the PerformanceObserver callback, one long-task entry (duration in ticks)
LongTask ==
    /\ scope = "load"
    /\ \E duration \in {Ms(LongTaskMs), Ms(LongTaskMs) + 1, Ms(80)} :
      /\ Finish("LongTask", duration,
                Dispatch(IF duration > Ms(LongTaskMs)
                         THEN trackEvent(Run0, Event("long_task", "Performance",
                                  "Task Duration",
                                  Num(MathRound(duration, TicksPerMs))))
                         ELSE Run0))
      /\ OnlyEvents

\* the window 'error' listener, for an error of another script
WindowError ==
    /\ scope = "load"
    /\ Finish("WindowError", "Script error.", errorListener(Run0, "Script error."))
    /\ OnlyEvents

\* the window 'unhandledrejection' listener
UnhandledRejection ==
    /\ scope = "load"
    /\ Finish("UnhandledRejection", "rejected",
              Dispatch(trackEvent(Run0, Event("promise_rejection", "Error",
                                              "rejected", Num(1)))))
    /\ OnlyEvents

\* the window 'beforeunload' listener of trackPageExit
BeforeUnload ==
    /\ scope = "load"
    /\ Finish("BeforeUnload", <<>>,
              Dispatch(trackEvent(Run0, Event("session_duration", "User Behavior",
                           "Time on Site",
                           Num(MathRound(DateNow - startTime, 1000))))))
    /\ OnlyEvents

\* ------------------------------------------------------------ environment
TickSteps == IF scope = "scroll" THEN {500} ELSE {1000}

\* Time passes, not beyond the deadline of a pending timer.
Tick ==
    \E d \in TickSteps :
      /\ now + d <= StartOffset + MaxTime
      /\ \A deadline \in timers : now + d <= deadline
      /\ now' = now + d
      /\ Env("Tick")
      /\ UNCHANGED <<scope, gtag, startTime, interactions, performanceMetrics,
                     sectionViews, maxScroll, scrollTimeout, timers, loaded,
                     dataTheme, trackerFirst, viewsSent, metricsAssigned, pageVars>>

\* The page's gtag global is defined, replaced or removed by another script.
SetGtag ==
    \E g \in {"undefined", "ok", "throws"} :
      /\ g # gtag
      /\ gtag' = g
      /\ Env("SetGtag")
      /\ UNCHANGED <<scope, now, startTime, interactions, performanceMetrics,
                     sectionViews, maxScroll, scrollTimeout, timers, loaded,
                     dataTheme, trackerFirst, viewsSent, metricsAssigned, pageVars>>

\* -------------------------------------------------------------- summary
\* a summary that counts each type once, however many entries have it
MutSummaryCountsTypesOnce ==
    [t \in { interactions[i].type : i \in 1..Len(interactions) } |-> 1]

\* getInteractionSummary(): type -> number of log entries of that type
getInteractionSummary ==
    LET types == { interactions[i].type : i \in 1..Len(interactions) }
    IN  [t \in types |->
           Cardinality({ i \in 1..Len(interactions) : interactions[i].type = t })]

\* getAnalyticsSummary()
getAnalyticsSummary ==
    [performanceMetrics |-> performanceMetrics,
     totalInteractions  |-> Len(interactions),
     interactionTypes   |-> getInteractionSummary,
     sessionDuration    |-> DateNow - startTime]

\* the sum of the counts of a summary
RECURSIVE SumCounts(_)
SumCounts(summary) ==
    IF DOMAIN summary = {} THEN 0
    ELSE LET t == CHOOSE x \in DOMAIN summary : TRUE
         IN  summary[t] + SumCounts([u \in DOMAIN summary \ {t} |-> summary[u]])

\* window.getAnalyticsSummary(): a call of getAnalyticsSummary, from the
\* console or another script, at any point
GetSummary ==
    /\ scope \in {"clicks", "sections", "scroll", "load"}
    /\ Finish("GetSummary", <<>>, Run0)
    /\ UNCHANGED <<scope, gtag, now, startTime, interactions, performanceMetrics,
                   sectionViews, maxScroll, scrollTimeout, timers, loaded,
                   dataTheme, trackerFirst, viewsSent, metricsAssigned, pageVars>>

\* ----------------------------------------------------------- specification
Next ==
    \/ NavClick
    \/ SocialClick
    \/ ProjectClick
    \/ CtaClick
    \/ ThemeClick
    \/ SectionObserved
    \/ Scroll
    \/ ScrollTimer
    \/ PageLoad
    \/ TrackConversion
    \/ MemorySample
    \/ LongTask
    \/ WindowError
    \/ UnhandledRejection
    \/ BeforeUnload
    \/ GetSummary
    \/ Tick
    \/ SetGtag

Spec == Init /\ [][Next]_vars

ScrollOnlyNext ==
    \/ Scroll
    \/ ScrollTimer
    \/ Tick
    \/ SetGtag

\* The scroll listener alone, with the clock running and due timers firing.
ScrollInit == Init /\ scope = "scroll"

FairScrollSpec ==
    /\ ScrollInit
    /\ [][ScrollOnlyNext]_vars
    /\ WF_vars(Tick)
    /\ WF_vars(ScrollTimer)

\* ================================================= page behaviour controller
\* src/script.js.  A behaviour explores one of its controls, `scope`: the
\* theme switcher ("theme"), the navbar's scroll listeners ("nav"), the blog
\* filter ("blog"), the contact form through its submissions ("form") and
\* through what is typed in its fields ("fields").  The tracker is idle.  The
\* model keeps the state the controls decide on (attributes, classes, style
\* properties, the stored preference, the timers that change them), not the
\* purely visual transforms and transitions.
PageScopes == {"theme", "nav", "blog", "form", "fields"}

\* The callback `op` of script.js has run on `input`.
PageFinish(op, input, functions) ==
    /\ last' = [op |-> op, input |-> input, calls |-> <<>>, returned |-> <<>>,
                sent |-> <<>>, threw |-> FALSE]
    /\ ran' = functions

\* ------------------------------------------------------------------ theme
\* localStorage.getItem('theme') at startup: null, or any string
StoredThemes == {"absent", "", "light", "dark", "blue"}

\* !localStorage.getItem('theme'): null or the empty string
noSavedTheme(st) == st.storage \in {"absent", ""}

\* setTheme(theme): body's data-theme and the stored item
setTheme(st, theme) == [dataTheme |-> theme, storage |-> theme]

SystemTheme(dark) == IF dark THEN "dark" ELSE "light"

\* initThemeSwitcher(), on the stored item and the system preference
initThemeSwitcher(stored, media, dark) ==
    LET savedTheme == IF stored \in {"absent", ""} THEN "light" ELSE stored
        st1 == setTheme([dataTheme |-> "absent", storage |-> stored], savedTheme)
    IN  IF media /\ noSavedTheme(st1) THEN setTheme(st1, SystemTheme(dark))
        ELSE st1

\* the state after script.js's DOMContentLoaded listener
PageInit ==
    /\ scope \in PageScopes
    /\ gtag = "undefined"
    /\ now = StartOffset
    /\ startTime = StartOffset
    /\ interactions = <<>>
    /\ performanceMetrics = EmptyMetrics
    /\ sectionViews = [s \in {} |-> 0]
    /\ maxScroll = Num(0)
    /\ scrollTimeout = NoTimer
    /\ timers = {}
    /\ loaded = FALSE
    /\ trackerFirst = TRUE
    /\ viewsSent = [s \in Sections |-> 0]
    /\ metricsAssigned = 0
    /\ \E stored \in IF scope = "theme" THEN StoredThemes ELSE {"light"},
          media \in IF scope = "theme" THEN BOOLEAN ELSE {TRUE},
          dark \in IF scope = "theme" THEN BOOLEAN ELSE {FALSE} :
         LET st == initThemeSwitcher(stored, media, dark)
         IN  /\ dataTheme = st.dataTheme
             /\ storage = st.storage
             /\ matchMedia = media
             /\ prefersDark = dark
             /\ userSaved = (stored \notin {"absent", ""})
             /\ last = [op |-> "init",
                        input |-> [stored |-> stored, media |-> media,
                                   dark |-> dark],
                        calls |-> <<>>, returned |-> <<>>, sent |-> <<>>,
                        threw |-> FALSE]
    /\ ControlsIdle

\* #themeToggle click: script.js's listener
ThemeToggle ==
    LET currentTheme == IF dataTheme \in {"absent", ""} THEN "light"
                        ELSE dataTheme
        newTheme == IF currentTheme = "light" THEN "dark" ELSE "light"
        st == setTheme([dataTheme |-> dataTheme, storage |-> storage], newTheme)
    IN  /\ scope = "theme"
        /\ dataTheme' = st.dataTheme
        /\ storage' = st.storage
        /\ userSaved' = TRUE
        /\ PageFinish("ThemeToggle", dataTheme, <<"setTheme">>)
        /\ UNCHANGED <<scope, now, trackerVars, prefersDark, matchMedia,
                       navVars, blogVars, formVars, pageTimers>>

\* the system colour scheme changes: the mediaQuery 'change' listener
SystemThemeChange ==
    LET st0 == [dataTheme |-> dataTheme, storage |-> storage]
        apply == noSavedTheme(st0)
        st == IF apply THEN setTheme(st0, SystemTheme(~prefersDark)) ELSE st0
    IN  /\ scope = "theme"
        /\ matchMedia
        /\ prefersDark' = ~prefersDark
        /\ dataTheme' = st.dataTheme
        /\ storage' = st.storage
        /\ PageFinish("SystemThemeChange", dataTheme,
                      IF apply THEN <<"setTheme">> ELSE <<>>)
        /\ UNCHANGED <<scope, now, trackerVars, matchMedia, userSaved,
                       navVars, blogVars, formVars, pageTimers>>

\* ----------------------------------------------------------------- timers
Timer(at, fn, arg) == [at |-> at, fn |-> fn, arg |-> arg]

Earliest(deadlines) == CHOOSE d \in deadlines : \A e \in deadlines : d <= e

\* the clock step and the time explored, per control
PageTickMs == CASE scope = "nav"  -> NavTickMs
                [] scope = "blog" -> BlogTickMs
                [] OTHER          -> FormTickMs
PageMaxTime == CASE scope = "nav"  -> MaxNavTime
                 [] scope = "blog" -> MaxBlogTime
                 [] scope = "form" -> MaxFormTime
                 [] scope = "fields" -> MaxFieldsTime
                 [] OTHER          -> 0

\* Time passes, up to the next instant explored or to the deadline of the
\* next pending timer if that comes first: a timer runs at its deadline.
PageTick ==
    LET ends == {now + PageTickMs} \cup { t.at : t \in pageTimers }
    IN  /\ scope \in PageScopes
        /\ now < StartOffset + PageMaxTime
        /\ \A t \in pageTimers : now < t.at
        /\ now' = Earliest(ends)
        /\ PageFinish("PageTick", <<>>, <<>>)
        /\ UNCHANGED <<scope, trackerVars, dataTheme, themeVars, navVars,
                       blogVars, formVars, pageTimers>>

\* ------------------------------------------------------------------ navbar
\* section.offsetTop, in document order
SectionOrder == <<"home", "about">>
OffsetTop == [sec \in Sections |-> IF sec = "home" THEN 0 ELSE 500]
NavScrollYs == {0, 100, 400}

\* updateActiveNavLink(): the last section with scrollY >= offsetTop - 200
RECURSIVE currentSection(_, _, _)
currentSection(y, i, current) ==
    IF i > Len(SectionOrder) THEN current
    ELSE currentSection(y, i + 1,
                        IF y >= OffsetTop[SectionOrder[i]] - LookAhead
                        THEN SectionOrder[i] ELSE current)

updateActiveNavLink(y) == currentSection(y, 1, "none")

\* debounce's executedFunction: clearTimeout(timeout);
\* timeout = setTimeout(later, wait)
debounced(pending, id, deadline) ==
    (pending \ {Timer(id, "later", <<>>)}) \cup {Timer(deadline, "later", <<>>)}

\* a scroll event: debouncedScrollHandler (registered when the script is
\* loaded), then initNavbar's listener (registered at DOMContentLoaded)
NavScroll ==
    /\ scope = "nav"
    /\ \E y \in NavScrollYs :
      /\ now + DebounceWait <= StartOffset + MaxNavTime
      /\ windowScrollY' = y
      /\ pageTimers' = debounced(pageTimers, timeout, now + DebounceWait)
      /\ timeout' = now + DebounceWait
      /\ navbarScrolled' = (y > NavbarScrolledAt)
      /\ activeLink' = updateActiveNavLink(y)
      /\ PageFinish("NavScroll", y,
                    <<"debouncedScrollHandler", "updateActiveNavLink">>)
      /\ UNCHANGED <<scope, now, trackerVars, dataTheme, themeVars, blogVars,
                     formVars>>

\* debounce's `later`: clearTimeout(timeout); func(...args)
DebounceTimer ==
    /\ scope = "nav"
    /\ \E t \in pageTimers :
      /\ t.fn = "later"
      /\ now >= t.at
      /\ pageTimers' = (pageTimers \ {t}) \ {Timer(timeout, "later", <<>>)}
      /\ activeLink' = updateActiveNavLink(windowScrollY)
      /\ PageFinish("DebounceTimer", t.at, <<"later", "updateActiveNavLink">>)
      /\ UNCHANGED <<scope, now, trackerVars, dataTheme, themeVars,
                     windowScrollY, navbarScrolled, timeout, blogVars, formVars>>

\* ------------------------------------------------------------- blog filter
\* filter === 'all' || category === filter
matchesFilter(filter, post) == filter = "all" \/ Category[post] = filter

\* a click on a .blog-filter-btn: the button becomes the active one, the
\* posts of the category are displayed at once and faded in 100 ms later,
\* the others are faded out and taken off the display 300 ms later
FilterClick ==
    /\ scope = "blog"
    /\ \E filter \in Filters :
      /\ now + HideDelay <= StartOffset + MaxBlogTime
      /\ activeFilter' = {filter}
      /\ lastFilter' = filter
      /\ display' = [p \in Posts |->
                       IF matchesFilter(filter, p) THEN "block" ELSE display[p]]
      /\ opacity' = [p \in Posts |-> 0]
      /\ pageTimers' = pageTimers \cup
            { IF matchesFilter(filter, p) THEN Timer(now + ShowDelay, "show", p)
              ELSE Timer(now + HideDelay, "hide", p) : p \in Posts }
      /\ PageFinish("FilterClick", filter, <<>>)
      /\ UNCHANGED <<scope, now, trackerVars, dataTheme, themeVars, navVars,
                     formVars>>

\* the timer of a displayed post: post.style.opacity = '1'
ShowTimer ==
    /\ scope = "blog"
    /\ \E t \in pageTimers :
      /\ t.fn = "show"
      /\ now >= t.at
      /\ pageTimers' = pageTimers \ {t}
      /\ opacity' = [opacity EXCEPT ![t.arg] = 1]
      /\ PageFinish("ShowTimer", t, <<>>)
      /\ UNCHANGED <<scope, now, trackerVars, dataTheme, themeVars, navVars,
                     activeFilter, lastFilter, display, formVars>>

\* the timer of a filtered-out post: post.style.display = 'none'
HideTimer ==
    /\ scope = "blog"
    /\ \E t \in pageTimers :
      /\ t.fn = "hide"
      /\ now >= t.at
      /\ pageTimers' = pageTimers \ {t}
      /\ display' = [display EXCEPT ![t.arg] = "none"]
      /\ PageFinish("HideTimer", t, <<>>)
      /\ UNCHANGED <<scope, now, trackerVars, dataTheme, themeVars, navVars,
                     activeFilter, lastFilter, opacity, formVars>>

\* ----------------------------------------------------------- contact form
\* Strings are sequences of characters.
Spaces        == {" "}
Digits        == {"0", "1", "2", "3", "4", "5", "6", "7", "8", "9"}
NonZeroDigits == Digits \ {"0"}

RECURSIVE trimStart(_)
trimStart(str) ==
    IF str # <<>> /\ Head(str) \in Spaces THEN trimStart(Tail(str)) ELSE str

RECURSIVE trimEnd(_)
trimEnd(str) ==
    IF str # <<>> /\ str[Len(str)] \in Spaces
    THEN trimEnd(SubSeq(str, 1, Len(str) - 1)) ELSE str

\* String.prototype.trim
trim(str) == trimEnd(trimStart(str))

\* /^[^\s@]+@[^\s@]+\.[^\s@]+$/.test(str)
emailRegexTest(str) ==
    \E i, j \in 1..Len(str) :
      /\ str[i] = "@" /\ str[j] = "."
      /\ i > 1 /\ j > i + 1 /\ j < Len(str)
      /\ \A k \in 1..Len(str) : k # i => str[k] \notin Spaces \cup {"@"}

\* str.replace(/[\s\-\(\)]/g, '')
stripPhone(str) ==
    LET Kept(c) == c \notin Spaces \cup {"-", "(", ")"}
    IN  SelectSeq(str, Kept)

\* /^[\+]?[1-9][\d]{0,15}$/.test(str)
phoneRegexTest(str) ==
    LET rest == IF str # <<>> /\ Head(str) = "+" THEN Tail(str) ELSE str
    IN  /\ Len(rest) \in 1..16
        /\ rest[1] \in NonZeroDigits
        /\ \A k \in 2..Len(rest) : rest[k] \in Digits

\* the form's fields: [required] and type, from the page's markup
Required  == {"firstName", "lastName", "email", "message"}
FieldType == [f \in FieldNames |->
                CASE f = "email"   -> "email"
                  [] f = "message" -> "textarea"
                  [] f = "phone"   -> "tel"
                  [] OTHER         -> "text"]

\* validateForm without its test of the message's length
MutRequiredInvalidNoMessage(f, value) ==
    LET v == trim(value)
    IN  IF v = <<>> THEN TRUE
        ELSE IF FieldType[f] = "email" THEN ~emailRegexTest(v)
        ELSE IF f \in {"firstName", "lastName"} THEN Len(v) < MinNameLength
        ELSE FALSE

\* validateForm, one required field: does it get 'is-invalid'?
requiredInvalid(f, value) ==
    LET v == trim(value)
    IN  IF v = <<>> THEN TRUE
        ELSE IF FieldType[f] = "email" THEN ~emailRegexTest(v)
        ELSE IF f \in {"firstName", "lastName"} THEN Len(v) < MinNameLength
        ELSE IF f = "message" THEN Len(v) < MinMessageLength
        ELSE FALSE

\* validateForm, the optional phone field: checked only if not blank
phoneChecked(value) == trim(value) # <<>>
phoneInvalid(value) == ~phoneRegexTest(stripPhone(trim(value)))

\* validateForm(): the fields' classes afterwards, and its result
validateForm(values, classes) ==
    LET verdict(f) == IF requiredInvalid(f, values[f]) THEN "is-invalid"
                      ELSE "is-valid"
        afterRequired == [f \in FieldNames |->
            IF f \in Required
            THEN (classes[f] \ {"is-valid", "is-invalid"}) \cup {verdict(f)}
            ELSE classes[f]]
        afterPhone == [afterRequired EXCEPT !["phone"] =
            IF phoneChecked(values["phone"])
            THEN @ \cup {IF phoneInvalid(values["phone"]) THEN "is-invalid"
                                                          ELSE "is-valid"}
            ELSE @]
    IN  [classes |-> afterPhone,
         isValid |-> /\ \A f \in Required : ~requiredInvalid(f, values[f])
                     /\ ~(phoneChecked(values["phone"])
                           /\ phoneInvalid(values["phone"]))]

\* what the user has typed when the form is submitted
Chars(n) == [i \in 1..n |-> "x"]
GoodFill == [f \in FieldNames |->
               CASE f = "firstName" -> <<"A", "l">>
                 [] f = "lastName"  -> <<"L", "i">>
                 [] f = "email"     -> <<"a", "@", "b", ".", "c">>
                 [] f = "message"   -> Chars(MinMessageLength)
                 [] OTHER           -> <<>>]
FormFills ==
    [ok           |-> GoodFill,
     okPhone      |-> [GoodFill EXCEPT !["phone"] =
                         <<"+", "1", " ", "(", "2", "3", ")">>],
     emptyLast    |-> [GoodFill EXCEPT !["lastName"] = <<>>],
     blankFirst   |-> [GoodFill EXCEPT !["firstName"] = <<" ", " ">>],
     shortFirst   |-> [GoodFill EXCEPT !["firstName"] = <<" ", "A", " ">>],
     badEmail     |-> [GoodFill EXCEPT !["email"] = <<"a", "@", "b">>],
     shortMessage |-> [GoodFill EXCEPT !["message"] =
                         Chars(MinMessageLength - 1)],
     badPhone     |-> [GoodFill EXCEPT !["phone"] = <<"0", "1", "2">>]]

\* the fills explored
FillsExplored == IF scope = "fields" THEN DOMAIN FormFills
                 ELSE {"ok", "badEmail"}

Submissions == { t \in pageTimers : t.fn = "submission" }

\* the form's 'submit' listener, up to its await.  Nothing in the listener
\* refuses a submit event while a submission is pending.
Submit ==
    /\ scope \in {"form", "fields"}
    /\ \E fill \in FillsExplored :
      LET v == validateForm(FormFills[fill], fieldClasses)
      IN  /\ now + SubmissionDelay <= StartOffset + PageMaxTime
          /\ Timer(now + SubmissionDelay, "submission", <<>>) \notin pageTimers
          /\ Cardinality(Submissions) < MaxPending
          /\ successHidden' = TRUE
          /\ errorHidden' = TRUE
          /\ shownAt' = [m \in Messages |-> NotShown]
          /\ fieldClasses' = v.classes
          /\ IF v.isValid
             THEN /\ submitDisabled' = TRUE
                  /\ btnTextHidden' = TRUE
                  /\ btnLoadingHidden' = FALSE
                  /\ pageTimers' = pageTimers \cup
                        {Timer(now + SubmissionDelay, "submission", <<>>)}
                  /\ PageFinish("Submit", fill,
                                <<"validateForm", "simulateFormSubmission">>)
             ELSE /\ UNCHANGED <<submitDisabled, btnTextHidden,
                                 btnLoadingHidden, pageTimers>>
                  /\ PageFinish("Submit", fill, <<"validateForm">>)
          /\ UNCHANGED <<scope, now, trackerVars, dataTheme, themeVars,
                         navVars, blogVars>>

\* a handler whose button reset is the last statement of its try block
MutAfterSubmissionNoFinally(ok) ==
    [successHidden    |-> IF ok THEN FALSE ELSE successHidden,
     errorHidden      |-> IF ok THEN errorHidden ELSE FALSE,
     submitDisabled   |-> IF ok THEN FALSE ELSE submitDisabled,
     btnTextHidden    |-> IF ok THEN FALSE ELSE btnTextHidden,
     btnLoadingHidden |-> IF ok THEN TRUE ELSE btnLoadingHidden]

\* the rest of the 'submit' listener: try / catch / finally
afterSubmission(ok) ==
    [successHidden    |-> IF ok THEN FALSE ELSE successHidden,
     errorHidden      |-> IF ok THEN errorHidden ELSE FALSE,
     submitDisabled   |-> FALSE,
     btnTextHidden    |-> FALSE,
     btnLoadingHidden |-> TRUE]

\* The timer of simulateFormSubmission fires: the promise is resolved or
\* rejected (Math.random() > 0.1), the listener resumes, and the
\* MutationObserver callback sets the auto-hide timer of the message shown.
SubmissionSettled ==
    /\ scope \in {"form", "fields"}
    /\ \E t \in Submissions, ok \in BOOLEAN :
      LET ui == afterSubmission(ok)
          shown == IF ok THEN "success" ELSE "error"
          wasHidden == IF ok THEN successHidden ELSE errorHidden
      IN  /\ now >= t.at
          /\ successHidden' = ui.successHidden
          /\ errorHidden' = ui.errorHidden
          /\ submitDisabled' = ui.submitDisabled
          /\ btnTextHidden' = ui.btnTextHidden
          /\ btnLoadingHidden' = ui.btnLoadingHidden
          /\ shownAt' = IF wasHidden THEN [shownAt EXCEPT ![shown] = now]
                        ELSE shownAt
          /\ fieldClasses' = IF ok THEN [f \in FieldNames |->
                                   fieldClasses[f] \ {"is-valid", "is-invalid"}]
                             ELSE fieldClasses
          /\ pageTimers' = (pageTimers \ {t}) \cup
                             {Timer(now + AutoHideDelay, "autoHide", shown)}
          /\ PageFinish("SubmissionSettled", [ok |-> ok, at |-> t.at],
                        IF ok THEN <<"resolve">> ELSE <<"reject", "catch">>)
          /\ UNCHANGED <<scope, now, trackerVars, dataTheme, themeVars,
                         navVars, blogVars>>

\* autoHideMessage's timer: the message is hidden if it is visible
AutoHideTimer ==
    /\ scope \in {"form", "fields"}
    /\ \E t \in pageTimers :
      /\ t.fn = "autoHide"
      /\ now >= t.at
      /\ pageTimers' = pageTimers \ {t}
      /\ successHidden' = IF t.arg = "success" THEN TRUE ELSE successHidden
      /\ errorHidden' = IF t.arg = "error" THEN TRUE ELSE errorHidden
      /\ shownAt' = [shownAt EXCEPT ![t.arg] = NotShown]
      /\ PageFinish("AutoHideTimer", t, <<>>)
      /\ UNCHANGED <<scope, now, trackerVars, dataTheme, themeVars, navVars,
                     blogVars, fieldClasses, submitDisabled, btnTextHidden,
                     btnLoadingHidden>>

\* ------------------------------------------------------ page specification
PageNext ==
    \/ ThemeToggle
    \/ SystemThemeChange
    \/ NavScroll
    \/ DebounceTimer
    \/ FilterClick
    \/ ShowTimer
    \/ HideTimer
    \/ Submit
    \/ SubmissionSettled
    \/ AutoHideTimer
    \/ PageTick

PageSpec == PageInit /\ [][PageNext]_vars

\* script.js with the clock running and the browser running due timers
FairPageSpec ==
    /\ PageInit
    /\ [][PageNext]_vars
    /\ WF_vars(PageTick)
    /\ WF_vars(DebounceTimer)
    /\ WF_vars(ShowTimer)
    /\ WF_vars(HideTimer)
    /\ WF_vars(SubmissionSettled)
    /\ WF_vars(AutoHideTimer)

\* ============================================================= properties
ClickOps == {"NavClick", "SocialClick", "ProjectClick", "CtaClick", "ThemeClick"}
EnvOps   == {"init", "Tick", "SetGtag"}

SectionViewCount(log, s) ==
    Cardinality({ i \in 1..Len(log) :
                    log[i].type = "section_view" /\ log[i].section = s })

AtMostOneView ==
    \A s \in Sections :
      SectionViewCount(interactions, s) <= 1 /\ viewsSent[s] <= 1

\* C1: at most one section_view event per section id is ever in the log and
\* ever sent to gtag; once an id is registered, its registry entry, its log
\* entries and its gtag calls never change again, and an observer callback
\* whose entries above the threshold are all registered changes nothing.
C1_AtMostOneSectionView ==
    [][ /\ AtMostOneView'
        /\ \A s \in DOMAIN sectionViews :
             /\ s \in DOMAIN sectionViews'
             /\ sectionViews'[s] = sectionViews[s]
             /\ viewsSent'[s] = viewsSent[s]
             /\ SectionViewCount(interactions', s)
                  = SectionViewCount(interactions, s)
        /\ ( /\ last'.op = "SectionObserved"
             /\ \A i \in 1..Len(last'.input) :
                  Qualifies(last'.input[i])
                    => last'.input[i].id \in DOMAIN sectionViews )
           => /\ UNCHANGED <<sectionViews, interactions, viewsSent>>
              /\ last'.calls = <<>>
              /\ last'.sent = <<>> ]_vars

\* C1 witness: an observer callback saw, above the threshold, a section that
\* was registered at an earlier instant, and did nothing.
C1_Witness ==
    /\ last.op = "SectionObserved"
    /\ last.calls = <<>>
    /\ \E i \in 1..Len(last.input) :
         LET e == last.input[i]
         IN  /\ Qualifies(e)
             /\ e.id \in DOMAIN sectionViews
             /\ sectionViews[e.id] < DateNow
             /\ SectionViewCount(interactions, e.id) = 1
             /\ viewsSent[e.id] = 1

C3_ScrollMaxInRange ==
    [][ /\ IsNum(maxScroll')
        /\ maxScroll'.v \in 0..100
        /\ IsNum(maxScroll) => maxScroll'.v >= maxScroll.v ]_vars

RecognizedKinds == {"contact_attempt", "project_engagement", "resume_download"}

\* C4 as stated: trackConversion(kind, value) makes two trackEvent calls for a
\* recognized kind (the generic one with value, the kind's own with 1) and
\* one, the generic, for any other kind.
C4_ConversionEvents ==
    last.op = "TrackConversion" =>
      LET kind == last.input.type
      IN  /\ Len(last.calls) = IF kind \in RecognizedKinds THEN 2 ELSE 1
          /\ last.calls[1] = Event("conversion", "Conversion", kind,
                                   last.input.value)
          /\ kind \in RecognizedKinds =>
               /\ last.calls[2].action = kind
               /\ last.calls[2].value = Num(1)

\* the trackEvent calls of the last step that report metric m
MetricCalls(m) == { i \in 1..Len(last.calls) : last.calls[i].action = m }

\* C5: right after a load listener that captured the metrics, each of the
\* four metrics was reported (once, with its captured value) exactly if that
\* value is strictly positive, and domContentLoaded is
\* domContentLoadedEventEnd - domContentLoadedEventStart rounded to the
\* nearest millisecond (200 for 1000 and 1200).
C5_MetricsReportedIffPositive ==
    (last.op = "PageLoad" /\ performanceMetrics # EmptyMetrics) =>
      /\ DOMAIN performanceMetrics = MetricNames
      /\ \A m \in MetricNames :
           /\ MetricCalls(m) # {}
                <=> (IsNum(performanceMetrics[m]) /\ performanceMetrics[m].v > 0)
           /\ Cardinality(MetricCalls(m)) <= 1
           /\ \A i \in MetricCalls(m) :
                last.calls[i] = Event(m, "Performance", m, performanceMetrics[m])
      /\ LET nav  == last.input.nav[1]
             diff == nav.domContentLoadedEventEnd - nav.domContentLoadedEventStart
             dcl  == performanceMetrics["domContentLoaded"].v
         IN  /\ 2 * (Ms(dcl) - diff) <= TicksPerMs
             /\ 2 * (diff - Ms(dcl)) < TicksPerMs
             /\ diff = Ms(200) => dcl = 200

\* C5 witness: timings 1000 and 1200 were captured as 200 and reported to
\* gtag, and firstPaint, absent, was captured as 0 and not reported.
C5_Witness ==
    /\ last.op = "PageLoad"
    /\ gtag = "ok"
    /\ performanceMetrics # EmptyMetrics
    /\ last.input.nav[1].domContentLoadedEventStart = Ms(1000)
    /\ last.input.nav[1].domContentLoadedEventEnd = Ms(1200)
    /\ performanceMetrics["domContentLoaded"] = Num(200)
    /\ \E i \in 1..Len(last.sent) :
         last.sent[i] = Event("domContentLoaded", "Performance",
                              "domContentLoaded", Num(200))
    /\ performanceMetrics["firstPaint"] = Num(0)
    /\ MetricCalls("firstPaint") = {}

\* C6 as stated: no callback ends by an exception of gtag, and a navigation
\* click has appended its entry to the log whatever gtag did.
C6_SinkFaultContained ==
    /\ ~last.threw
    /\ last.op = "NavClick" =>
         /\ Len(interactions) >= 1
         /\ interactions[Len(interactions)]
              = [type |-> "navigation", section |-> last.input,
                 timestamp |-> DateNow]

\* C7: a callback that runs while gtag is not defined raises nothing, calls
\* gtag not at all, and still updates the tracker: a click appends its log
\* entry, the observer registers and logs every new section above the
\* threshold, the scroll listener updates the maximum.
C7_AbsentSinkIsSilent ==
    [][ (gtag = "undefined" /\ last'.op \notin EnvOps) =>
          /\ ~last'.threw
          /\ last'.sent = <<>>
          /\ last'.returned = last'.calls
          /\ last'.op \in ClickOps =>
               /\ Len(last'.calls) = 1
               /\ Len(interactions') = Len(interactions) + 1
          /\ last'.op = "SectionObserved" =>
               \A i \in 1..Len(last'.input) :
                 (Qualifies(last'.input[i])
                    /\ last'.input[i].id \notin DOMAIN sectionViews) =>
                   /\ last'.input[i].id \in DOMAIN sectionViews'
                   /\ sectionViews'[last'.input[i].id] = DateNow
                   /\ SectionViewCount(interactions', last'.input[i].id) = 1
          /\ last'.op = "Scroll" =>
               maxScroll' = MathMax(maxScroll,
                                scrollPercent(last'.input.scrollY,
                                              last'.input.scrollHeight,
                                              last'.input.innerHeight))
          /\ last'.op \in {"ScrollTimer", "UnhandledRejection", "BeforeUnload",
                           "WindowError"} => Len(last'.calls) = 1
          /\ last'.op = "PageLoad" => Len(last'.calls) >= 1 ]_vars

\* C7 witness: with gtag not defined, the observer registered and logged a
\* section and made its trackEvent call, which reached no sink.
C7_Witness ==
    /\ gtag = "undefined"
    /\ last.op = "SectionObserved"
    /\ Len(last.calls) = 1
    /\ last.sent = <<>>
    /\ last.calls[1].label \in DOMAIN sectionViews
    /\ SectionViewCount(interactions, last.calls[1].label) = 1

\* C8 as stated: neither the running maximum nor an emitted scroll_depth
\* value is ever NaN or an infinity.
C8_NoFaultValue ==
    /\ ~IsFault(maxScroll)
    /\ \A i \in 1..Len(last.calls) :
         last.calls[i].action = "scroll_depth" => ~IsFault(last.calls[i].value)

\* C9: a scroll event emits nothing and leaves exactly one timer pending, due
\* 1000 ms later (the one pending before is cancelled); scroll_depth is
\* emitted only by that timer, at its deadline, once, carrying the running
\* maximum; nothing else touches the timer; and a pending timer does fire.
C9_Step ==
    /\ last'.op = "Scroll" =>
         /\ last'.calls = <<>>
         /\ scrollTimeout' = now + ScrollQuietMs
         /\ timers' = {scrollTimeout'}
    /\ last'.op = "ScrollTimer" =>
         /\ timers = {now}
         /\ scrollTimeout = now
         /\ timers' = {}
         /\ maxScroll' = maxScroll
         /\ last'.calls[1] = Event("scroll_depth", "User Behavior",
                                   "Max Scroll Percentage", maxScroll)
         /\ CountOf(last'.calls, {"scroll_depth"}) = 1
    /\ last'.op \notin {"Scroll", "ScrollTimer"} =>
         /\ UNCHANGED <<timers, scrollTimeout>>
         /\ \A i \in 1..Len(last'.calls) :
              last'.calls[i].action # "scroll_depth"

C9_ScrollDepthDebounced ==
    /\ [][C9_Step]_vars
    /\ [](Cardinality(timers) <= 1 /\ timers \subseteq {scrollTimeout})
    /\ (timers # {}) ~> (last.op = "ScrollTimer")

\* C9 witness: the timer of a scroll event made 500 ms after construction
\* has fired, 1000 ms later, with the running maximum, which is positive.
C9_Witness ==
    /\ last.op = "ScrollTimer"
    /\ now = StartOffset + 500 + ScrollQuietMs
    /\ timers = {}
    /\ IsNum(maxScroll) /\ maxScroll.v > 0
    /\ last.calls[1].value = maxScroll

\* C10: this.performanceMetrics is empty until the load event has been
\* dispatched and is assigned at most once, by the load listener.
C10_CaptureOnceAfterLoad ==
    /\ ~loaded => (performanceMetrics = EmptyMetrics /\ metricsAssigned = 0)
    /\ metricsAssigned <= 1
    /\ performanceMetrics # EmptyMetrics => (loaded /\ metricsAssigned = 1)

\* C10 witness: the metrics were captured by the load listener and a later
\* callback has run.
C10_Witness ==
    /\ loaded
    /\ metricsAssigned = 1
    /\ performanceMetrics # EmptyMetrics
    /\ last.op = "TrackConversion"

\* C11: a call of getAnalyticsSummary leaves the log, the performance
\* metrics, the section registry, the scroll maximum, the timers and what gtag
\* has received unchanged, calls neither trackEvent nor gtag, and the counts
\* of its interactionTypes add up to its totalInteractions.
C11_Step ==
    last'.op = "GetSummary" =>
      /\ UNCHANGED <<interactions, performanceMetrics, sectionViews, maxScroll,
                     scrollTimeout, timers, viewsSent, metricsAssigned,
                     startTime, dataTheme>>
      /\ last'.calls = <<>> /\ last'.sent = <<>> /\ ~last'.threw
      /\ (SumCounts(getAnalyticsSummary.interactionTypes)
            = getAnalyticsSummary.totalInteractions)'
      /\ getAnalyticsSummary' = getAnalyticsSummary

C11_SummaryIsPureRead == [][C11_Step]_vars

\* C11 witness: the summary was read with two entries of one type in the log.
C11_Witness ==
    /\ last.op = "GetSummary"
    /\ Len(interactions) = 2
    /\ interactions[1].type = interactions[2].type
    /\ getAnalyticsSummary.interactionTypes[interactions[1].type] = 2

\* C12 as stated: the sessionDuration of a summary is the time elapsed between
\* the construction of the tracker and the call.
C12_SessionDurationIsElapsed ==
    last.op = "GetSummary" =>
      getAnalyticsSummary.sessionDuration = now - startTime

\* C14: every step leaves the entries already in the log in place and
\* unchanged, adding entries only at the end, and the timestamps of the log
\* never decrease along it.
C14_Step ==
    /\ Len(interactions') >= Len(interactions)
    /\ \A i \in 1..Len(interactions) : interactions'[i] = interactions[i]

C14_Chronological ==
    \A i, j \in 1..Len(interactions) :
      i <= j => interactions[i].timestamp <= interactions[j].timestamp

C14_LogAppendOnly == [][C14_Step]_vars /\ []C14_Chronological

\* C14 witness: two entries appended one second apart.
C14_Witness ==
    /\ Len(interactions) = 2
    /\ interactions[2].timestamp = interactions[1].timestamp + 1000
    /\ last.op \in ClickOps \cup {"SectionObserved"}

\* C16 as stated: after initThemeSwitcher and after every click on the
\* toggle, the stored 'theme' item equals body's data-theme and is light or
\* dark, and a click switches to the other of the two.
C16_StoredThemeIsDataTheme ==
    scope = "theme" =>
      /\ storage = dataTheme
      /\ storage \in {"light", "dark"}
      /\ last.op = "ThemeToggle" =>
            /\ last.input \in {"light", "dark"}
            /\ dataTheme = Other(last.input)

\* C17 as stated: as long as the user has saved no preference the theme
\* applied is the system's (at startup and after a change of the system
\* preference); with a saved preference a change of the system preference
\* leaves the theme alone.
C17_SystemPreferenceFallback ==
    scope = "theme" =>
      /\ (~userSaved /\ matchMedia) => dataTheme = SystemTheme(prefersDark)
      /\ (userSaved /\ last.op = "SystemThemeChange") => dataTheme = last.input

CountRan(fn) == Cardinality({ i \in 1..Len(ran) : ran[i] = fn })

\* C15 as stated: updateActiveNavLink runs only from the debounce timer,
\* once, 10 ms after the last scroll event; a scroll event itself triggers
\* no update.
C15_NavUpdateDebounced ==
    scope = "nav" =>
      /\ last.op = "NavScroll" => CountRan("updateActiveNavLink") = 0
      /\ last.op = "DebounceTimer" =>
            /\ CountRan("updateActiveNavLink") = 1
            /\ now = last.input
            /\ pageTimers = {}
      /\ Cardinality(pageTimers) <= 1

\* C20 as stated: once a filter has been clicked and no transition timer is
\* pending, a post is displayed exactly if the filter clicked last is 'all'
\* or the post's category, and exactly that filter's button is active.
C20_FilterSettles ==
    (scope = "blog" /\ lastFilter # "none" /\ pageTimers = {}) =>
      /\ \A p \in Posts :
           (display[p] = "block") <=> matchesFilter(lastFilter, p)
      /\ activeFilter = {lastFilter}

\* C13: a submission that passed validation is settled 2 s after the submit
\* event; when it settles, resolved or rejected, the button is enabled, its
\* text shown and the loading indicator hidden; when it is rejected the error
\* message is shown, the success message is not made visible, and no
\* exception leaves the listener; and a pending submission does settle.
C13_Step ==
    /\ (last'.op = "Submit" /\ CountRan("simulateFormSubmission")' = 1) =>
          /\ Timer(now + SubmissionDelay, "submission", <<>>) \in pageTimers'
          /\ submitDisabled' /\ btnTextHidden' /\ ~btnLoadingHidden'
    /\ last'.op = "SubmissionSettled" =>
          /\ now = last'.input.at
          /\ ~submitDisabled' /\ ~btnTextHidden' /\ btnLoadingHidden'
          /\ ~last'.threw
          /\ ~last'.input.ok =>
                /\ ~errorHidden'
                /\ successHidden => successHidden'

C13_SubmissionSettlesUI ==
    /\ [][C13_Step]_vars
    /\ (Submissions # {}) ~> (last.op = "SubmissionSettled")

\* C13 witness: a submission has been rejected, 2 s after the submit event.
C13_Witness ==
    /\ last.op = "SubmissionSettled"
    /\ ~last.input.ok
    /\ now = StartOffset + SubmissionDelay
    /\ ~errorHidden /\ successHidden /\ ~submitDisabled

\* C18 as stated: a message is hidden by its auto-hide timer only once it has
\* been visible for 10 s, is never visible for longer than 10 s, and a
\* submission is started only by a submit event.
C18_Step ==
    /\ \A m \in Messages :
         (last'.op = "AutoHideTimer" /\ shownAt[m] # NotShown
            /\ shownAt'[m] = NotShown)
           => now - shownAt[m] >= AutoHideDelay
    /\ \A m \in Messages :
         shownAt'[m] # NotShown => now' - shownAt'[m] <= AutoHideDelay
    /\ ~(Submissions' \subseteq Submissions) => last'.op = "Submit"

C18_AutoHideAfterTenSeconds == [][C18_Step]_vars

\* the fields each fill is expected to fail on
ExpectedFailing ==
    [ok |-> {}, okPhone |-> {}, emptyLast |-> {"lastName"},
     blankFirst |-> {"firstName"}, shortFirst |-> {"firstName"},
     badEmail |-> {"email"}, shortMessage |-> {"message"},
     badPhone |-> {"phone"}]

\* C19: a submit event starts a submission (and the loading state) exactly
\* if no field of the fill fails; if one fails, the failing fields get
\* 'is-invalid', the button, the indicator and the timers are left as they
\* were, and no exception leaves the listener.
C19_Step ==
    last'.op = "Submit" =>
      LET bad == ExpectedFailing[last'.input]
      IN  /\ ~last'.threw
          /\ CountRan("validateForm")' = 1
          /\ (CountRan("simulateFormSubmission")' = 1) <=> (bad = {})
          /\ ~(Submissions' \subseteq Submissions) <=> (bad = {})
          /\ bad = {} => submitDisabled' /\ ~btnLoadingHidden' /\ btnTextHidden'
          /\ bad # {} =>
                /\ \A f \in bad : "is-invalid" \in fieldClasses'[f]
                /\ \A f \in Required \ bad : "is-invalid" \notin fieldClasses'[f]
                /\ UNCHANGED <<submitDisabled, btnTextHidden,
                               btnLoadingHidden, pageTimers>>

C19_SubmitOnlyIfValid == [][C19_Step]_vars

\* C19 witness: a fill with a 9-character message has been submitted with
\* nothing pending: the message is marked and the button is still enabled.
C19_Witness ==
    /\ last.op = "Submit"
    /\ last.input = "shortMessage"
    /\ "is-invalid" \in fieldClasses["message"]
    /\ ~submitDisabled
    /\ pageTimers = {}

\* C21 as stated: after a click on the theme toggle, the theme in the
\* theme_change event and in the log's 'theme' entry is body's data-theme as
\* the click's listeners left it, in either order of registration.
C21_TrackedThemeIsPageTheme ==
    last.op = "ThemeClick" =>
      /\ \A i \in 1..Len(last.calls) :
            last.calls[i].action = "theme_change" =>
              last.calls[i].label = dataTheme
      /\ ~last.threw =>
            /\ interactions[Len(interactions)].type = "theme"
            /\ interactions[Len(interactions)].theme = dataTheme

\* C22 as stated: while a submission is pending the submit button is
\* disabled and the loading indicator shown, and the success and the error
\* message are never visible together.
C22_PendingMeansLoading ==
    scope \in {"form", "fields"} =>
      /\ Submissions # {} =>
            /\ submitDisabled
            /\ ~btnLoadingHidden
      /\ ~(~successHidden /\ ~errorHidden)

====
